---- MODULE Spec2Model ----
(***************************************************************************)
(* Vantage: the knowledge-graph research loop.                             *)
(*                                                                         *)
(* The graph store (Neo4j, reached through graph.query) holds nodes and    *)
(* edges.  tools.py writes to it from research_and_learn, seed.py resets   *)
(* and seeds it, tools.py and api.py read it.  A string is a sequence of   *)
(* one-character strings, so that upper(), replace() and the store's       *)
(* reading of a quoted literal are computed character by character.        *)
(***************************************************************************)
EXTENDS Naturals, Sequences, FiniteSets, TLC

(***************************************************************************)
(* Bounds of the model.                                                    *)
(***************************************************************************)
\* most nodes the store holds at once; a statement that would add more is not taken
MaxNodes == 3
\* most edges the store holds at once
MaxEdges == 2

(***************************************************************************)
(* Strings.                                                                *)
(***************************************************************************)
QUOTE == "'"
BACKSLASH == "\\"

Acme == <<"A", "c", "m", "e">>
Acorn == <<"A", "c", "o", "r", "n">>
Jane == <<"J", "a", "n", "e">>

AI == <<"A", "I">>
SF == <<"S", "F">>

\* the entity names an extraction result or a seed dataset may mention
Names == {Acme, Acorn, Jane, AI, SF}

LowerLetters == <<"a", "b", "c", "d", "e", "f", "g", "h", "i", "j", "k", "l", "m",
                  "n", "o", "p", "q", "r", "s", "t", "u", "v", "w", "x", "y", "z">>
UpperLetters == <<"A", "B", "C", "D", "E", "F", "G", "H", "I", "J", "K", "L", "M",
                  "N", "O", "P", "Q", "R", "S", "T", "U", "V", "W", "X", "Y", "Z">>

\* str.upper() on one character
UpperChar(c) ==
    IF \E i \in 1..26 : LowerLetters[i] = c
    THEN UpperLetters[CHOOSE i \in 1..26 : LowerLetters[i] = c]
    ELSE c

\* str.lower() and Cypher's toLower() on one character
LowerChar(c) ==
    IF \E i \in 1..26 : UpperLetters[i] = c
    THEN LowerLetters[CHOOSE i \in 1..26 : UpperLetters[i] = c]
    ELSE c

\* Cypher's toLower()
Lower(s) == [i \in 1..Len(s) |-> LowerChar(s[i])]

\* str.upper()
Upper(s) == [i \in 1..Len(s) |-> UpperChar(s[i])]

\* str.replace("'", "\\'"): every quote gets a backslash in front of it
RECURSIVE EscapeQuotes(_)
EscapeQuotes(s) ==
    IF s = <<>> THEN <<>>
    ELSE (IF Head(s) = QUOTE THEN <<BACKSLASH, QUOTE>> ELSE <<Head(s)>>)
         \o EscapeQuotes(Tail(s))

\* The store reading the text spliced between two quotes of a statement as
\* one string literal: a backslash takes the next character literally, a
\* bare quote ends the literal early and a last lone backslash swallows the
\* closing quote; in both cases the statement is no longer the one of the
\* template (ok = FALSE).
RECURSIVE ReadLiteral(_)
ReadLiteral(text) ==
    IF text = <<>> THEN [ok |-> TRUE, val |-> <<>>]
    ELSE IF Head(text) = QUOTE THEN [ok |-> FALSE, val |-> <<>>]
    ELSE IF Head(text) = BACKSLASH
         THEN IF Len(text) = 1 THEN [ok |-> FALSE, val |-> <<>>]
              ELSE LET rest == ReadLiteral(Tail(Tail(text)))
                   IN  [ok |-> rest.ok, val |-> <<text[2]>> \o rest.val]
    ELSE LET rest == ReadLiteral(Tail(text))
         IN  [ok |-> rest.ok, val |-> <<Head(text)>> \o rest.val]

IdentChars == {LowerLetters[i] : i \in 1..26} \cup {UpperLetters[i] : i \in 1..26}
              \cup {"_"}

\* The store reading the text spliced after "[:" as a relationship type: an
\* unquoted name is letters and underscores, anything else ends the name early.
ReadIdent(text) ==
    [ok |-> text # <<>> /\ \A i \in 1..Len(text) : text[i] \in IdentChars,
     val |-> text]

(***************************************************************************)
(* The graph store.  A node is named by the label and id of the MERGE that *)
(* created it: MERGE creates a node only when no node with that label and  *)
(* id matches, and no statement of the program removes a label or a single *)
(* node, so two nodes of the store never share that pair.  Two nodes may   *)
(* well share the id.                                                      *)
(***************************************************************************)
Labels == {"Organization", "Person", "Sector", "Location", "Investor"}
PropKeys == {"valuation", "sector", "description", "status"}
\* a property never SET on the node
Unset == <<"unset">>
\* a pattern without a label, (n {id: ...})
AnyLabel == "*"

INVESTED_IN == <<"I", "N", "V", "E", "S", "T", "E", "D", "_", "I", "N">>
LEADS == <<"L", "E", "A", "D", "S">>
COMPETES_WITH == <<"C", "O", "M", "P", "E", "T", "E", "S", "_", "W", "I", "T", "H">>

FOUNDED == <<"F", "O", "U", "N", "D", "E", "D">>
ACQUIRED == <<"A", "C", "Q", "U", "I", "R", "E", "D">>
PARTNERED_WITH == <<"P", "A", "R", "T", "N", "E", "R", "E", "D", "_", "W", "I", "T", "H">>
EMPLOYED_BY == <<"E", "M", "P", "L", "O", "Y", "E", "D", "_", "B", "Y">>
PRODUCED == <<"P", "R", "O", "D", "U", "C", "E", "D">>
PARTICIPATED_IN == <<"P", "A", "R", "T", "I", "C", "I", "P", "A", "T", "E", "D", "_", "I", "N">>
FOUNDED_BY == <<"F", "O", "U", "N", "D", "E", "D", "_", "B", "Y">>
OPERATES_IN == <<"O", "P", "E", "R", "A", "T", "E", "S", "_", "I", "N">>
LOCATED_AT == <<"L", "O", "C", "A", "T", "E", "D", "_", "A", "T">>

\* schema.py ALLOWED_RELATIONSHIPS
ALLOWED_RELATIONSHIPS ==
    {FOUNDED, INVESTED_IN, ACQUIRED, PARTNERED_WITH, EMPLOYED_BY, PRODUCED,
     PARTICIPATED_IN}

\* the relationship types the extraction prompt and the seeding add to them
RelationshipVocabulary ==
    ALLOWED_RELATIONSHIPS \cup {LEADS, FOUNDED_BY, OPERATES_IN, LOCATED_AT, COMPETES_WITH}

EmptyGraph ==
    [nodes |-> {}, labels |-> <<>>, props |-> <<>>, edges |-> {}]

NodeId(n) == n[2]

\* the nodes a pattern (n:lbl {id: id}) matches
MatchNodes(g, lbl, id) ==
    {n \in g.nodes : NodeId(n) = id /\ (lbl = AnyLabel \/ lbl \in g.labels[n])}

\* MERGE (n:lbl {id: id}) with a nonempty match binds the matches and
\* writes nothing; with no match it creates one node carrying lbl alone
MergeNodeCreate(g, lbl, id) ==
    LET n == <<lbl, id>>
        ns == g.nodes \cup {n}
    IN  [g EXCEPT !.nodes = ns,
                  !.labels = [m \in ns |-> IF m \in g.nodes THEN g.labels[m] ELSE {lbl}],
                  !.props = [m \in ns |-> IF m \in g.nodes THEN g.props[m]
                                          ELSE [k \in PropKeys |-> Unset]]]

MergeNode(g, lbl, id) ==
    IF MatchNodes(g, lbl, id) # {} THEN g ELSE MergeNodeCreate(g, lbl, id)

\* a SET that replaced the labels of the bound nodes instead of adding one
AddLabelReplacing(g, ns, lbl) ==
    [g EXCEPT !.labels = [m \in g.nodes |-> IF m \in ns THEN {lbl} ELSE g.labels[m]]]

\* SET n:lbl on every bound node
AddLabel(g, ns, lbl) ==
    [g EXCEPT !.labels = [m \in g.nodes |-> IF m \in ns THEN g.labels[m] \cup {lbl}
                                             ELSE g.labels[m]]]

\* SET n.k = kv[k] on every bound node
SetProps(g, ns, kv) ==
    [g EXCEPT !.props = [m \in g.nodes |-> IF m \in ns THEN kv ELSE g.props[m]]]

\* MERGE (a)-[:type]->(b) for every pair of bound nodes
MergeEdges(g, as, type, bs) ==
    [g EXCEPT !.edges = @ \cup {<<a, type, b>> : a \in as, b \in bs}]

\* tools.py: graph.query(f"MERGE (n:{label} {{id: $name}})", params={"name": item})
StmtMergeEntity(g, label, name) ==
    [ok |-> TRUE, g |-> MergeNode(g, label, name)]

\* tools.py: graph.query("MATCH (n {id: $name}) SET n:Investor", ...)
StmtSetInvestor(g, name) ==
    [ok |-> TRUE, g |-> AddLabel(g, MatchNodes(g, AnyLabel, name), "Investor")]

\* tools.py: MATCH (a {id: $source}), (b {id: $target}) MERGE (a)-[:{rel_type}]->(b)
\* rel_type is spliced into the statement's text
StmtMergeRel(g, source, target, rel_type) ==
    LET t == ReadIdent(rel_type)
    IN  IF ~t.ok THEN [ok |-> FALSE, g |-> g]
        ELSE [ok |-> TRUE,
              g |-> MergeEdges(g, MatchNodes(g, AnyLabel, source), t.val,
                               MatchNodes(g, AnyLabel, target))]

\* seed.py: graph.query("MATCH (n) DETACH DELETE n")
StmtReset(g) == [ok |-> TRUE, g |-> EmptyGraph]

\* seed.py: MERGE (c:Organization {id: '{name}'}) SET c.valuation = '{val}', ...
\* every value is spliced between quotes
StmtSeedOrg(g, name, val, sec, desc, stat) ==
    LET n == ReadLiteral(name)
        v == ReadLiteral(val)
        s == ReadLiteral(sec)
        d == ReadLiteral(desc)
        t == ReadLiteral(stat)
        g1 == MergeNode(g, "Organization", n.val)
        kv == [k \in PropKeys |->
                 CASE k = "valuation" -> v.val
                   [] k = "sector" -> s.val
                   [] k = "description" -> d.val
                   [] k = "status" -> t.val]
    IN  IF ~(n.ok /\ v.ok /\ s.ok /\ d.ok /\ t.ok) THEN [ok |-> FALSE, g |-> g]
        ELSE [ok |-> TRUE,
              g |-> SetProps(g1, MatchNodes(g1, "Organization", n.val), kv)]

\* seed.py: MERGE (x:lbl {id: '{other}'}) MERGE (c:Organization {id: '{name}'})
\*          MERGE (x)-[:type]->(c)    (the founder and the investor statements)
StmtSeedLink(g, lbl, other, type, name) ==
    LET o == ReadLiteral(other)
        n == ReadLiteral(name)
        g1 == MergeNode(g, lbl, o.val)
        g2 == MergeNode(g1, "Organization", n.val)
    IN  IF ~(o.ok /\ n.ok) THEN [ok |-> FALSE, g |-> g]
        ELSE [ok |-> TRUE,
              g |-> MergeEdges(g2, MatchNodes(g2, lbl, o.val), type,
                               MatchNodes(g2, "Organization", n.val))]

\* seed.py: MATCH (a:Organization {id: '{a}'}), (b:Organization {id: '{b}'})
\*          MERGE (a)-[:COMPETES_WITH]->(b) MERGE (b)-[:COMPETES_WITH]->(a)
StmtCompete(g, a, b) ==
    LET x == ReadLiteral(a)
        y == ReadLiteral(b)
        as == MatchNodes(g, "Organization", x.val)
        bs == MatchNodes(g, "Organization", y.val)
    IN  IF ~(x.ok /\ y.ok) THEN [ok |-> FALSE, g |-> g]
        ELSE [ok |-> TRUE,
              g |-> MergeEdges(MergeEdges(g, as, COMPETES_WITH, bs),
                               bs, COMPETES_WITH, as)]

\* seed.py: MATCH (a:Organization {id: 'a'}), (b:Organization {id: 'b'})
\*          MERGE (a)-[:INVESTED_IN]->(b)
StmtInvested(g, a, b) ==
    [ok |-> TRUE,
     g |-> MergeEdges(g, MatchNodes(g, "Organization", a), INVESTED_IN,
                      MatchNodes(g, "Organization", b))]

\* the model's bound on the store's size
Within(g) == Cardinality(g.nodes) <= MaxNodes /\ Cardinality(g.edges) <= MaxEdges

(***************************************************************************)
(* State.                                                                  *)
(***************************************************************************)
VARIABLES
    graph,            \* the store: nodes, their labels and properties, edges
    searchAvailable,  \* tools.py SEARCH_AVAILABLE, fixed at import
    pc,               \* where each session's tool call stands
    rawText,          \* research_and_learn's raw_text
    content,          \* research_and_learn's response.content
    key,              \* the list of data the node loop has reached (1..4)
    cur,              \* the relationship whose MERGE is still to be issued
    result,           \* what the tool call returned
    fault,            \* the failure the call met, if any
    oracleCalled,     \* the call issued a completion request
    wrote,            \* the call issued a store statement
    relIssued,        \* the call issued a statement of its relationship loop
    stmt,             \* the statements the last operation handed to graph.query
    toolCall,         \* the whiteboard tool last called and its arguments
    toolOutput,       \* the string that call returned
    stream,           \* the chunks generate_stream has yielded, in order
    running,          \* the tool runs the agent has started and not ended
    streamPc,         \* where generate_stream stands
    query,            \* the query last given to extract_entity_from_query
    entity,           \* what it returned
    chat_history,     \* agent.py run_chat: the messages kept between turns
    served,           \* the messages of the turns generate_stream has served
    turn,             \* the last conversation turn: what the agent was handed
    agent_cache,      \* api.py _agent_cache: pairs of cache key and agent
    agents,           \* how many agents get_agent has created
    lookup,           \* the last get_agent_executor call and its outcome
    looked,           \* the cache keys whose lookup returned since the last clear
    job,              \* concurrent ingestions: each session's data and progress
    base              \* the store those ingestions started from

\* the store and the tool calls of a session
storeVars == <<graph, searchAvailable, pc, rawText, content, key, cur, result, fault,
               oracleCalled, wrote, relIssued>>
\* whiteboard_tools.py
boardVars == <<toolCall, toolOutput>>
\* api.py generate_stream
streamVars == <<stream, running, streamPc>>
\* extract_entity_from_query
entityVars == <<query, entity>>

\* agent.py run_chat and the turns of generate_stream
chatVars == <<chat_history, served, turn>>
\* api.py get_agent_executor, clear_agent_cache
cacheVars == <<agent_cache, agents, lookup, looked>>
\* research_and_learn calls running side by side
jobVars == <<job, base>>
\* the orchestrator's own state
orchestratorVars == <<chatVars, cacheVars, jobVars>>

\* what the tool calls on the store and the seeding leave alone
other == <<stmt, boardVars, streamVars, entityVars, orchestratorVars>>

vars == <<graph, searchAvailable, pc, rawText, content, key, cur, result, fault,
          oracleCalled, wrote, relIssued, other>>

\* what takes conversation turns: agent.py's loop and api.py's endpoint
FrontEnds == {"run_chat", "generate_stream"}

\* no conversation turn was taken yet
NoTurn == [by |-> "none", prior |-> <<>>, input |-> <<>>, handed |-> <<>>,
           returned |-> <<>>, kept |-> <<>>]

\* no agent was asked for yet
NoLookup == [provider |-> "none", model |-> "none", outcome |-> "none", agent |-> 0,
             created |-> FALSE, first |-> FALSE, before |-> {}]

\* the session runs no ingestion
NoJob == [data |-> 0, at |-> 0, ended |-> FALSE]

\* no whiteboard tool was called yet
NoCall == [name |-> "none", args |-> <<>>]

\* conversation sessions sharing the store
Sessions == {1, 2}

None == <<"none">>
NoRel == [type |-> <<>>, source |-> <<>>, target |-> <<>>]
NoResult == [kind |-> "none", detail |-> <<>>]
EmptyText == <<>>
SomeText == <<"t", "e", "x", "t">>

\* messages of the exceptions the collaborators raise
Errors == {<<"e", "1">>, <<"e", "2">>}

\* tool results: the text returned, as its fixed part and the text embedded in it
SearchUnavailable == [kind |-> "Search tool not available.", detail |-> <<>>]
SearchFailed(e) == [kind |-> "Search failed: ", detail |-> e]
ErrorResult(e) == [kind |-> "Error: ", detail |-> e]
Summary == [kind |-> "I have updated the database. Found: ", detail |-> <<>>]
NoInfo == [kind |-> "No info in graph.", detail |-> <<>>]
ChainAnswer(t) == [kind |-> "", detail |-> t]

(***************************************************************************)
(* seed.py                                                                 *)
(***************************************************************************)
\* The dataset seed_company is called with: a company whose founder is also
\* one of its investors (the same name seeded as a Person and as an
\* Organization), and the same company again with other property values.
Dataset ==
    {[name |-> Acme, founders |-> <<Jane>>, investors |-> <<Jane>>,
      valuation |-> <<"$", "5">>, sector |-> AI,
      description |-> <<"I", "'", "s">>, status |-> <<"P">>],
     [name |-> Acme, founders |-> <<>>, investors |-> <<Acorn>>,
      valuation |-> <<"$", "9">>, sector |-> AI,
      description |-> <<"d">>, status |-> <<"U">>]}

\* the statements of one seed_company(name, data) call, in the order issued
SeedStatements(data) ==
    <<[op |-> "org", who |-> <<>>]>>
    \o [i \in 1..Len(data.founders) |-> [op |-> "founder", who |-> data.founders[i]]]
    \o [i \in 1..Len(data.investors) |-> [op |-> "investor", who |-> data.investors[i]]]

SeedStmt(g, name, data, st) ==
    CASE st.op = "org" ->
            StmtSeedOrg(g, name, EscapeQuotes(data.valuation), EscapeQuotes(data.sector),
                        EscapeQuotes(data.description), EscapeQuotes(data.status))
      [] st.op = "founder" ->
            StmtSeedLink(g, "Person", EscapeQuotes(st.who), LEADS, name)
      [] st.op = "investor" ->
            StmtSeedLink(g, "Organization", EscapeQuotes(st.who), INVESTED_IN, name)

\* the store after the statements sts, issued in order; ok is FALSE when the
\* store refused one of them
RECURSIVE RunSeed(_, _, _, _)
RunSeed(g, name, data, sts) ==
    IF sts = <<>> THEN [ok |-> TRUE, g |-> g]
    ELSE LET r == SeedStmt(g, name, data, Head(sts))
         IN  IF ~r.ok THEN r ELSE RunSeed(r.g, name, data, Tail(sts))

\* seed.py line 20
Reset ==
    /\ graph' = StmtReset(graph).g
    /\ UNCHANGED <<searchAvailable, pc, rawText, content, key, cur, result, fault,
                   oracleCalled, wrote, relIssued, other>>

\* seed_company(name, data): it has no handler, so the first statement the
\* store refuses or fails ends it with the statements before it applied
seed_company(name, data) ==
    LET sts == SeedStatements(data)
    IN  /\ \E k \in 0..Len(sts) :
              LET r == RunSeed(graph, name, data, SubSeq(sts, 1, k))
              IN  /\ r.ok
                  /\ Within(r.g)
                  /\ graph' = r.g
        /\ UNCHANGED <<searchAvailable, pc, rawText, content, key, cur, result, fault,
                       oracleCalled, wrote, relIssued, other>>

\* create_competition's loops over i < j, in order
RECURSIVE RunCompetition(_, _, _, _)
RunCompetition(g, companies, i, j) ==
    IF i > Len(companies) THEN [ok |-> TRUE, g |-> g]
    ELSE IF j > Len(companies) THEN RunCompetition(g, companies, i + 1, i + 2)
    ELSE LET r == StmtCompete(g, companies[i], companies[j])
         IN  IF ~r.ok THEN r ELSE RunCompetition(r.g, companies, i, j + 1)

\* lists create_competition is called with
CompetitionLists == {<<Acme>>, <<Acme, Acorn>>}

\* pairs the statements of lines 184-190 name
InvestmentPairs == {<<Acorn, Acme>>}

create_competition(companies) ==
    LET r == RunCompetition(graph, companies, 1, 2)
    IN  /\ r.ok
        /\ Within(r.g)
        /\ graph' = r.g
        /\ UNCHANGED <<searchAvailable, pc, rawText, content, key, cur, result, fault,
                       oracleCalled, wrote, relIssued, other>>

\* seed.py lines 184-190
SeedInvestment(a, b) ==
    LET r == StmtInvested(graph, a, b)
    IN  /\ Within(r.g)
        /\ graph' = r.g
        /\ UNCHANGED <<searchAvailable, pc, rawText, content, key, cur, result, fault,
                       oracleCalled, wrote, relIssued, other>>

(***************************************************************************)
(* tools.py: research_and_learn                                            *)
(***************************************************************************)
\* The oracle's output, cut into the pieces the cleaning and the parser tell
\* apart: a code fence, the word json, a JSON object, a JSON value that is
\* no object, white space, and text that is no JSON.
\* the three backticks of a code fence
TICKS == "fence"
OracleOutputs ==
    {<<"OBJ">>,
     <<TICKS, "json", "ws", "OBJ", "ws", TICKS>>,
     <<TICKS, "json", "ws", "OBJ", "ws", TICKS, "ws", "note">>,
     <<"note", "OBJ">>,
     <<"ARR">>,
     <<"note">>,
     <<>>}

\* str.replace of a fence followed by json with ""
RECURSIVE DropFenceJson(_)
DropFenceJson(c) ==
    IF c = <<>> THEN <<>>
    ELSE IF Len(c) >= 2 /\ c[1] = TICKS /\ c[2] = "json" THEN DropFenceJson(Tail(Tail(c)))
    ELSE <<Head(c)>> \o DropFenceJson(Tail(c))

\* str.replace of a fence with ""
DropFence(c) == SelectSeq(c, LAMBDA t : t # TICKS)

\* str.strip()
RECURSIVE Strip(_)
Strip(c) ==
    IF c = <<>> THEN <<>>
    ELSE IF Head(c) = "ws" THEN Strip(Tail(c))
    ELSE IF c[Len(c)] = "ws" THEN Strip(SubSeq(c, 1, Len(c) - 1))
    ELSE c

\* tools.py line 88
CleanJson(c) == Strip(DropFence(DropFenceJson(c)))

\* json.loads: one JSON value and nothing else
JsonLoads(c) ==
    [ok |-> Len(c) = 1 /\ c[1] \in {"OBJ", "ARR"},
     isDict |-> Len(c) = 1 /\ c[1] = "OBJ"]

\* the mentions the lists of an extraction result may hold: companies,
\* people, sectors, locations.  Jane is listed as a company and as a person.
Mentions(k) ==
    CASE k = 1 -> {Acme, Acorn, Jane}
      [] k = 2 -> {Jane}
      [] k = 3 -> {AI}
      [] k = 4 -> {SF}

\* the entries the relationships list of an extraction result may hold; the
\* type is the oracle's free-form token
RelEntries ==
    {[source |-> Jane, target |-> Acme, type |-> LEADS],
     [source |-> Acorn, target |-> Acme, type |-> INVESTED_IN],
     [source |-> Acorn, target |-> Acme,
      type |-> <<"i", "n", "v", "e", "s", "t", "e", "d", "_", "i", "n">>],
     [source |-> Jane, target |-> Acme, type |-> <<"o", "w", "n", "s">>],
     [source |-> Acme, target |-> Jane,
      type |-> <<"S", "t", "a", "r", "t", "e", "d", " ", "b", "y">>]}

\* tools.py line 93
KeyLabel(k) ==
    CASE k = 1 -> "Organization"
      [] k = 2 -> "Person"
      [] k = 3 -> "Sector"
      [] k = 4 -> "Location"

\* the call ends: return value v, failure f
Finish(s, v, f) ==
    /\ pc' = [pc EXCEPT ![s] = "done"]
    /\ result' = [result EXCEPT ![s] = v]
    /\ fault' = [fault EXCEPT ![s] = f]

\* lines 43-50: the web search
Search(s) ==
    /\ pc[s] = "idle"
    /\ \/ /\ ~searchAvailable
          /\ Finish(s, SearchUnavailable, "search")
          /\ UNCHANGED rawText
       \/ /\ searchAvailable
          /\ \E e \in Errors : Finish(s, SearchFailed(e), "search")
          /\ UNCHANGED rawText
       \/ /\ searchAvailable
          /\ \E t \in {EmptyText, SomeText} : rawText' = [rawText EXCEPT ![s] = t]
          /\ pc' = [pc EXCEPT ![s] = "extract"]
          /\ UNCHANGED <<result, fault>>
    /\ UNCHANGED <<graph, searchAvailable, content, key, cur, oracleCalled, wrote, relIssued, other>>

\* an extraction step that went on to the writes with whatever it received
ExtractUnchecked(s) ==
    /\ pc[s] = "extract"
    /\ oracleCalled' = [oracleCalled EXCEPT ![s] = TRUE]
    /\ \/ /\ pc' = [pc EXCEPT ![s] = "raised"]
          /\ fault' = [fault EXCEPT ![s] = "oracle"]
          /\ UNCHANGED <<content, key, result>>
       \/ \E c \in OracleOutputs :
            /\ content' = [content EXCEPT ![s] = c]
            /\ pc' = [pc EXCEPT ![s] = "nodes"]
            /\ key' = [key EXCEPT ![s] = 1]
            /\ UNCHANGED <<result, fault>>
    /\ UNCHANGED <<graph, searchAvailable, rawText, cur, wrote, relIssued, other>>

\* lines 53-89 and the first data.get: the completion request, outside the
\* try, then the cleaning and json.loads inside it
Extract(s) ==
    /\ pc[s] = "extract"
    /\ oracleCalled' = [oracleCalled EXCEPT ![s] = TRUE]
    /\ \/ /\ pc' = [pc EXCEPT ![s] = "raised"]
          /\ fault' = [fault EXCEPT ![s] = "oracle"]
          /\ UNCHANGED <<content, key, result>>
       \/ \E c \in OracleOutputs :
            LET data == JsonLoads(CleanJson(c))
            IN  /\ content' = [content EXCEPT ![s] = c]
                /\ \/ /\ ~data.ok
                      /\ \E e \in Errors : Finish(s, ErrorResult(e), "parse")
                      /\ UNCHANGED key
                   \/ /\ data.ok /\ ~data.isDict
                      /\ \E e \in Errors : Finish(s, ErrorResult(e), "entry")
                      /\ UNCHANGED key
                   \/ /\ data.ok /\ data.isDict
                      /\ pc' = [pc EXCEPT ![s] = "nodes"]
                      /\ key' = [key EXCEPT ![s] = 1]
                      /\ UNCHANGED <<result, fault>>
    /\ UNCHANGED <<graph, searchAvailable, rawText, cur, wrote, relIssued, other>>

\* lines 92-95: the next item of the lists of data, in the order of the keys
MergeEntity(s) ==
    /\ pc[s] = "nodes"
    /\ \E k \in key[s]..4, item \in Names :
          /\ item \in Mentions(k)
          /\ LET r == StmtMergeEntity(graph, KeyLabel(k), item)
             IN  /\ Within(r.g)
                 /\ graph' = r.g
                 /\ key' = [key EXCEPT ![s] = k]
    /\ wrote' = [wrote EXCEPT ![s] = TRUE]
    /\ UNCHANGED <<searchAvailable, pc, rawText, content, cur, result, fault, oracleCalled,
                   relIssued, other>>

\* the lists are exhausted: on to data.get("relationships", [])
NodesDone(s) ==
    /\ pc[s] = "nodes"
    /\ pc' = [pc EXCEPT ![s] = "rels"]
    /\ UNCHANGED <<graph, searchAvailable, rawText, content, key, cur, result, fault,
                   oracleCalled, wrote, relIssued, other>>

\* a relationship loop that went back to the node loop after each MERGE
MergeRelThenNodes(s, rel) ==
    LET r == StmtMergeRel(graph, rel.source, rel.target, rel.type)
    IN  /\ wrote' = [wrote EXCEPT ![s] = TRUE]
        /\ relIssued' = [relIssued EXCEPT ![s] = TRUE]
        /\ cur' = [cur EXCEPT ![s] = NoRel]
        /\ r.ok
        /\ Within(r.g)
        /\ graph' = r.g
        /\ pc' = [pc EXCEPT ![s] = "nodes"]
        /\ UNCHANGED <<result, fault>>

\* lines 103-107: the MERGE of the relationship; the store refuses a
\* statement whose spliced type is no name
MergeRel(s, rel) ==
    LET r == StmtMergeRel(graph, rel.source, rel.target, rel.type)
    IN  /\ wrote' = [wrote EXCEPT ![s] = TRUE]
        /\ relIssued' = [relIssued EXCEPT ![s] = TRUE]
        /\ cur' = [cur EXCEPT ![s] = NoRel]
        /\ \/ /\ r.ok
              /\ Within(r.g)
              /\ graph' = r.g
              /\ pc' = [pc EXCEPT ![s] = "rels"]
              /\ UNCHANGED <<result, fault>>
           \/ /\ ~r.ok
              /\ \E e \in Errors : Finish(s, ErrorResult(e), "store")
              /\ UNCHANGED graph

\* lines 98-107: the next relationship.  For INVESTED_IN the promotion is
\* one statement and the MERGE the next.
RelStart(s) ==
    /\ pc[s] = "rels"
    /\ \E entry \in RelEntries :
          LET rel_type == Upper(entry.type)
              rel == [source |-> entry.source, target |-> entry.target, type |-> rel_type]
          IN  IF rel_type = INVESTED_IN
              THEN /\ graph' = StmtSetInvestor(graph, entry.source).g
                   /\ wrote' = [wrote EXCEPT ![s] = TRUE]
                   /\ relIssued' = [relIssued EXCEPT ![s] = TRUE]
                   /\ cur' = [cur EXCEPT ![s] = rel]
                   /\ pc' = [pc EXCEPT ![s] = "rel_merge"]
                   /\ UNCHANGED <<result, fault>>
              ELSE MergeRel(s, rel)
    /\ UNCHANGED <<searchAvailable, rawText, content, key, oracleCalled, other>>

RelMerge(s) ==
    /\ pc[s] = "rel_merge"
    /\ MergeRel(s, cur[s])
    /\ UNCHANGED <<searchAvailable, rawText, content, key, oracleCalled, other>>

\* an entry of data that is not what the loops expect (a relationship
\* without "type", a list that is none): the except clause returns
EntryFails(s) ==
    /\ pc[s] \in {"nodes", "rels"}
    /\ \E e \in Errors : Finish(s, ErrorResult(e), "entry")
    /\ UNCHANGED <<graph, searchAvailable, rawText, content, key, cur, oracleCalled, wrote, relIssued, other>>

\* graph.query raises (the store is unreachable): the except clause returns
StoreFails(s) ==
    /\ pc[s] \in {"nodes", "rels", "rel_merge"}
    /\ \E e \in Errors : Finish(s, ErrorResult(e), "store")
    /\ wrote' = [wrote EXCEPT ![s] = TRUE]
    /\ relIssued' = [relIssued EXCEPT ![s] = @ \/ pc[s] # "nodes"]
    /\ cur' = [cur EXCEPT ![s] = NoRel]
    /\ UNCHANGED <<graph, searchAvailable, rawText, content, key, oracleCalled, other>>

\* lines 110-113
RelsDone(s) ==
    /\ pc[s] = "rels"
    /\ Finish(s, Summary, "none")
    /\ UNCHANGED <<graph, searchAvailable, rawText, content, key, cur, oracleCalled, wrote, relIssued, other>>

\* the orchestrator takes the result (or the exception) of the tool call
Return(s) ==
    /\ pc[s] \in {"done", "raised", "q_done", "q_raised"}
    /\ pc' = [pc EXCEPT ![s] = "idle"]
    /\ rawText' = [rawText EXCEPT ![s] = None]
    /\ content' = [content EXCEPT ![s] = None]
    /\ key' = [key EXCEPT ![s] = 1]
    /\ cur' = [cur EXCEPT ![s] = NoRel]
    /\ result' = [result EXCEPT ![s] = NoResult]
    /\ fault' = [fault EXCEPT ![s] = "none"]
    /\ oracleCalled' = [oracleCalled EXCEPT ![s] = FALSE]
    /\ wrote' = [wrote EXCEPT ![s] = FALSE]
    /\ relIssued' = [relIssued EXCEPT ![s] = FALSE]
    /\ UNCHANGED <<graph, searchAvailable, other>>

(***************************************************************************)
(* tools.py: the writes of one research_and_learn call as a function of    *)
(* the store it starts from and of the extraction result.                  *)
(***************************************************************************)
\* extraction results: the one of the specification's example; one that
\* lists a name twice, has a free-form type and names an unlisted source;
\* one whose first relationship has a type the store refuses
Extractions ==
    {[companies |-> <<Acme, Acorn>>, people |-> <<Jane>>, sectors |-> <<>>,
      locations |-> <<>>,
      relationships |-> <<[source |-> Jane, target |-> Acme, type |-> LEADS],
                          [source |-> Acorn, target |-> Acme, type |-> INVESTED_IN]>>],
     [companies |-> <<Acme, Jane>>, people |-> <<Jane>>, sectors |-> <<AI>>,
      locations |-> <<SF>>,
      relationships |-> <<[source |-> Jane, target |-> Acme, type |-> <<"o", "w", "n", "s">>],
                          [source |-> Acorn, target |-> Acme,
                           type |-> <<"i", "n", "v", "e", "s", "t", "e", "d", "_", "i", "n">>]>>],
     [companies |-> <<Acme>>, people |-> <<Jane>>, sectors |-> <<>>,
      locations |-> <<>>,
      relationships |-> <<[source |-> Acme, target |-> Jane,
                           type |-> <<"S", "t", "a", "r", "t", "e", "d", " ", "b", "y">>],
                          [source |-> Jane, target |-> Acme, type |-> LEADS]>>]}

\* data.get(key, []) for the keys of line 92, in their order
DataList(data, k) ==
    CASE k = 1 -> data.companies
      [] k = 2 -> data.people
      [] k = 3 -> data.sectors
      [] k = 4 -> data.locations

IngestOp(op, label, source, target, type) ==
    [op |-> op, label |-> label, source |-> source, target |-> target, type |-> type]

\* lines 92-95: one MERGE per item, list after list
NodeStatements(data) ==
    LET of(k) == [i \in 1..Len(DataList(data, k)) |->
                    IngestOp("node", KeyLabel(k), DataList(data, k)[i], <<>>, <<>>)]
    IN  of(1) \o of(2) \o of(3) \o of(4)

\* lines 98-107: per relationship the promotion, if any, then the MERGE
RECURSIVE RelStatements(_)
RelStatements(rels) ==
    IF rels = <<>> THEN <<>>
    ELSE LET rel == Head(rels)
             rel_type == Upper(rel.type)
         IN  (IF rel_type = INVESTED_IN
              THEN <<IngestOp("promote", "Investor", rel.source, <<>>, <<>>)>>
              ELSE <<>>)
             \o <<IngestOp("edge", "", rel.source, rel.target, rel_type)>>
             \o RelStatements(Tail(rels))

\* the statements of one call, in the order issued
IngestStatements(data) == NodeStatements(data) \o RelStatements(data.relationships)

IngestStmt(g, st) ==
    CASE st.op = "node" -> StmtMergeEntity(g, st.label, st.source)
      [] st.op = "promote" -> StmtSetInvestor(g, st.source)
      [] st.op = "edge" -> StmtMergeRel(g, st.source, st.target, st.type)

\* an ingestion in one transaction: a refused statement undoes the writes
\* made before it
RECURSIVE RunIngestKeeping(_, _)
RunIngestKeeping(g, sts) ==
    IF sts = <<>> THEN [ok |-> TRUE, g |-> g]
    ELSE LET r == IngestStmt(g, Head(sts))
         IN  IF ~r.ok THEN r ELSE RunIngestKeeping(r.g, Tail(sts))

RunIngestRollingBack(g, sts) ==
    LET r == RunIngestKeeping(g, sts)
    IN  IF r.ok THEN r ELSE [ok |-> FALSE, g |-> g]

\* the store after the statements sts, issued in order; the first one the
\* store refuses raises into the except clause and ends the call
RECURSIVE RunIngest(_, _)
RunIngest(g, sts) ==
    IF sts = <<>> THEN [ok |-> TRUE, g |-> g]
    ELSE LET r == IngestStmt(g, Head(sts))
         IN  IF ~r.ok THEN r ELSE RunIngest(r.g, Tail(sts))

\* names data lists under some key
Mentioned(data) ==
    UNION {{DataList(data, k)[i] : i \in 1..Len(DataList(data, k))} : k \in 1..4}

(***************************************************************************)
(* tools.py: query_graph_database                                          *)
(***************************************************************************)
\* texts the answering oracle may produce
AnswerTexts == {<<"I", "d", "k">>, <<"J", "a", "n", "e">>}

\* lines 136-140: the chain is built before the try; a failure there (the
\* model client cannot be made) leaves the function as an exception
QueryBuild(s) ==
    /\ pc[s] = "idle"
    /\ \/ /\ pc' = [pc EXCEPT ![s] = "q_chain"]
          /\ UNCHANGED fault
       \/ /\ pc' = [pc EXCEPT ![s] = "q_raised"]
          /\ fault' = [fault EXCEPT ![s] = "build"]
    /\ UNCHANGED <<graph, searchAvailable, rawText, content, key, cur, result,
                   oracleCalled, wrote, relIssued, other>>

\* the call ends: return value v, failure f
QueryFinish(s, v, f) ==
    /\ pc' = [pc EXCEPT ![s] = "q_done"]
    /\ result' = [result EXCEPT ![s] = v]
    /\ fault' = [fault EXCEPT ![s] = f]

\* lines 141-144: chain.invoke(question)["result"] inside the try.  The
\* oracle writes a query, here a lookup of the nodes with one id, the store
\* runs it and the oracle words the answer from the rows.
QueryInvoke(s) ==
    /\ pc[s] = "q_chain"
    /\ oracleCalled' = [oracleCalled EXCEPT ![s] = TRUE]
    /\ \/ QueryFinish(s, NoInfo, "oracle")
       \/ QueryFinish(s, NoInfo, "query")
       \/ \E id \in Names, t \in AnswerTexts :
             LET rows == MatchNodes(graph, AnyLabel, id)
             IN  QueryFinish(s, ChainAnswer(t), IF rows = {} THEN "empty" ELSE "none")
    /\ UNCHANGED <<graph, searchAvailable, rawText, content, key, cur, wrote, relIssued, other>>

(***************************************************************************)
(* Specification: one session's tool calls and the seeding script against  *)
(* the shared store.                                                       *)
(***************************************************************************)
Init ==
    /\ graph = EmptyGraph
    /\ searchAvailable \in BOOLEAN
    /\ pc = [s \in Sessions |-> "idle"]
    /\ rawText = [s \in Sessions |-> None]
    /\ content = [s \in Sessions |-> None]
    /\ key = [s \in Sessions |-> 1]
    /\ cur = [s \in Sessions |-> NoRel]
    /\ result = [s \in Sessions |-> NoResult]
    /\ fault = [s \in Sessions |-> "none"]
    /\ oracleCalled = [s \in Sessions |-> FALSE]
    /\ wrote = [s \in Sessions |-> FALSE]
    /\ relIssued = [s \in Sessions |-> FALSE]
    /\ stmt = <<>>
    /\ toolCall = NoCall
    /\ toolOutput = <<>>
    /\ stream = <<>>
    /\ running = {}
    /\ streamPc = "idle"
    /\ query = None
    /\ entity = <<>>
    /\ chat_history = <<>>
    /\ served = [f \in FrontEnds |-> <<>>]
    /\ turn = NoTurn
    /\ agent_cache = {}
    /\ agents = 0
    /\ lookup = NoLookup
    /\ looked = {}
    /\ job = [s \in Sessions |-> NoJob]
    /\ base = EmptyGraph

Research(s) ==
    \/ Search(s)
    \/ Extract(s)
    \/ MergeEntity(s)
    \/ NodesDone(s)
    \/ RelStart(s)
    \/ RelMerge(s)
    \/ EntryFails(s)
    \/ StoreFails(s)
    \/ RelsDone(s)

Seeding ==
    \/ Reset
    \/ \E data \in Dataset : seed_company(data.name, data)
    \/ \E companies \in CompetitionLists : create_competition(companies)
    \/ \E p \in InvestmentPairs : SeedInvestment(p[1], p[2])

Query(s) ==
    \/ QueryBuild(s)
    \/ QueryInvoke(s)

Next == Research(1) \/ Query(1) \/ Return(1) \/ Seeding

Spec == Init /\ [][Next]_vars

(***************************************************************************)
(* Specification of the ingestion as one step: a research_and_learn call   *)
(* whose search and extraction gave the result data writes its statements  *)
(* in order and stops behind any of them, against the store the seeding    *)
(* script also writes to.                                                  *)
(***************************************************************************)
research_and_learn(s, data) ==
    LET sts == IngestStatements(data)
    IN  /\ pc[s] = "idle"
        /\ searchAvailable
        /\ \E k \in 0..Len(sts) :
              LET r == RunIngest(graph, SubSeq(sts, 1, k))
              IN  /\ Within(r.g)
                  /\ graph' = r.g
                  /\ wrote' = [wrote EXCEPT ![s] = k > 0]
                  /\ relIssued' = [relIssued EXCEPT ![s] = k > Len(NodeStatements(data))]
                  /\ IF r.ok /\ k = Len(sts)
                     THEN Finish(s, Summary, "none")
                     ELSE \E e \in Errors :
                             Finish(s, ErrorResult(e), IF r.ok THEN "entry" ELSE "store")
        /\ rawText' = [rawText EXCEPT ![s] = SomeText]
        /\ content' = [content EXCEPT ![s] = <<"OBJ">>]
        /\ oracleCalled' = [oracleCalled EXCEPT ![s] = TRUE]
        /\ UNCHANGED <<searchAvailable, key, cur, other>>

NextIngest ==
    \/ \E data \in Extractions : research_and_learn(1, data)
    \/ Return(1)
    \/ Seeding

SpecIngest == Init /\ [][NextIngest]_vars

(***************************************************************************)
(* The text of the statements.  A statement is recorded as the function    *)
(* that issued it and the strings it carries: each one is bound as a       *)
(* parameter (the driver sends it apart from the text), or spliced into    *)
(* the text between quotes, or spliced as a relationship type.  want is    *)
(* the string the code means the store to see, text what it put there.     *)
(***************************************************************************)
Param(v) == [kind |-> "param", want |-> v, text |-> v]
Literal(v, t) == [kind |-> "literal", want |-> v, text |-> t]
Ident(v, t) == [kind |-> "ident", want |-> v, text |-> t]
Statement(site, splices) == [site |-> site, splices |-> splices]

\* names scraped text may hold: a plain one, one with an apostrophe, one
\* ending in a backslash
UntrustedNames == {<<"a">>, <<"O", "'", "R">>, <<"a", "\\">>}

\* relationships an extraction result may hold over these names
UntrustedRels ==
    {[source |-> <<"a">>, target |-> <<"O", "'", "R">>, type |-> <<"o", "w", "n", "s">>],
     [source |-> <<"O", "'", "R">>, target |-> <<"a">>,
      type |-> <<"S", "t", "a", "r", "t", "e", "d", " ", "b", "y">>],
     [source |-> <<"a", "\\">>, target |-> <<"a">>, type |-> INVESTED_IN]}

\* what extract_entity_from_query may hand to get_graph
FocusEntities == UntrustedNames \cup {<<"A">>, <<"o", "'", "r">>}

\* tools.py lines 92-95, one item of one list
TextMergeEntity(k, item) ==
    LET r == StmtMergeEntity(graph, KeyLabel(k), item)
    IN  /\ Within(r.g)
        /\ graph' = r.g
        /\ stmt' = <<Statement("research_and_learn", <<Param(item)>>)>>
        /\ UNCHANGED <<searchAvailable, pc, rawText, content, key, cur, result, fault,
                       oracleCalled, wrote, relIssued, boardVars, streamVars,
                       entityVars, orchestratorVars>>

\* tools.py lines 98-107, one relationship: the promotion when the type is
\* INVESTED_IN, then the MERGE with rel_type spliced; a statement the store
\* refuses writes nothing
TextMergeRel(rel) ==
    LET rel_type == Upper(rel.type)
        promote == rel_type = INVESTED_IN
        g1 == IF promote THEN StmtSetInvestor(graph, rel.source).g ELSE graph
        r == StmtMergeRel(g1, rel.source, rel.target, rel_type)
        g2 == IF r.ok THEN r.g ELSE g1
    IN  /\ Within(g2)
        /\ graph' = g2
        /\ stmt' = (IF promote
                    THEN <<Statement("research_and_learn", <<Param(rel.source)>>)>>
                    ELSE <<>>)
                   \o <<Statement("research_and_learn",
                                  <<Param(rel.source), Param(rel.target),
                                    Ident(rel_type, rel_type)>>)>>
        /\ UNCHANGED <<searchAvailable, pc, rawText, content, key, cur, result, fault,
                       oracleCalled, wrote, relIssued, boardVars, streamVars,
                       entityVars, orchestratorVars>>

\* api.py get_graph, lines 367-378: the focus entity is spliced with its
\* quotes escaped, the id read back from the store is spliced as it is.
\* LIMIT 1 picks any one of the nodes that match.
get_graph(focus_entity) ==
    LET safe_entity == EscapeQuotes(focus_entity)
        center == Statement("get_graph", <<Literal(focus_entity, safe_entity)>>)
        read == ReadLiteral(safe_entity)
        center_res == IF read.ok
                      THEN {n \in graph.nodes : Lower(NodeId(n)) = Lower(read.val)}
                      ELSE {}
    IN  /\ focus_entity # <<>>
        /\ IF center_res = {}
           THEN stmt' = <<center>>
           ELSE \E n \in center_res :
                   LET real_id == NodeId(n)
                   IN  stmt' = <<center,
                                 Statement("get_graph", <<Literal(real_id, real_id)>>)>>
        /\ UNCHANGED <<graph, searchAvailable, pc, rawText, content, key, cur, result,
                       fault, oracleCalled, wrote, relIssued, boardVars, streamVars,
                       entityVars, orchestratorVars>>

\* the text of one statement of seed_company
SeedText(name, data, st) ==
    CASE st.op = "org" ->
            Statement("seed_company",
                      <<Literal(name, name),
                        Literal(data.valuation, EscapeQuotes(data.valuation)),
                        Literal(data.sector, EscapeQuotes(data.sector)),
                        Literal(data.description, EscapeQuotes(data.description)),
                        Literal(data.status, EscapeQuotes(data.status))>>)
      [] OTHER ->
            Statement("seed_company",
                      <<Literal(st.who, EscapeQuotes(st.who)), Literal(name, name)>>)

\* seed.py lines 22-51, the whole call
TextSeedCompany(name, data) ==
    LET sts == SeedStatements(data)
        r == RunSeed(graph, name, data, sts)
    IN  /\ r.ok
        /\ Within(r.g)
        /\ graph' = r.g
        /\ stmt' = [i \in 1..Len(sts) |-> SeedText(name, data, sts[i])]
        /\ UNCHANGED <<searchAvailable, pc, rawText, content, key, cur, result, fault,
                       oracleCalled, wrote, relIssued, boardVars, streamVars,
                       entityVars, orchestratorVars>>

\* seed.py line 20
TextReset ==
    /\ graph' = StmtReset(graph).g
    /\ stmt' = <<Statement("seed", <<>>)>>
    /\ UNCHANGED <<searchAvailable, pc, rawText, content, key, cur, result, fault,
                   oracleCalled, wrote, relIssued, boardVars, streamVars,
                       entityVars, orchestratorVars>>

NextText ==
    \/ \E item \in UntrustedNames : TextMergeEntity(1, item)
    \/ \E rel \in UntrustedRels : TextMergeRel(rel)
    \/ \E focus_entity \in FocusEntities : get_graph(focus_entity)
    \/ \E data \in Dataset : TextSeedCompany(data.name, data)
    \/ TextReset

SpecText == Init /\ [][NextText]_vars

(***************************************************************************)
(* whiteboard_tools.py: the tools that return action records.  Their       *)
(* output is text, a sequence of characters, so that a marker inside a     *)
(* payload is there to be found.                                           *)
(***************************************************************************)
\* most comma-separated fields of the tickers argument in the model
MaxTickers == 7

NL == "\n"
START_ACTION == <<"<", "<", "<", "A", "C", "T", "I", "O", "N", ":">>
END_ACTION == <<":", "A", "C", "T", "I", "O", "N", ">", ">", ">">>

\* ACTION_TYPES
CREATE_NODE == <<"c", "r", "e", "a", "t", "e", "_", "n", "o", "d", "e">>
CREATE_CHART == <<"c", "r", "e", "a", "t", "e", "_", "c", "h", "a", "r", "t">>

\* the elements of the sequence of texts parts, with sep between them
RECURSIVE JoinWith(_, _)
JoinWith(parts, sep) ==
    IF parts = <<>> THEN <<>>
    ELSE IF Len(parts) = 1 THEN parts[1]
    ELSE parts[1] \o sep \o JoinWith(Tail(parts), sep)

\* json.dumps of a str: quotes around it, a backslash before a quote and a
\* backslash, a line feed as \n; the other printable ASCII characters,
\* "<", ">" and ":" among them, as they are
RECURSIVE JsonEscape(_)
JsonEscape(t) ==
    IF t = <<>> THEN <<>>
    ELSE (CASE Head(t) = "\"" -> <<"\\", "\"">>
            [] Head(t) = "\\" -> <<"\\", "\\">>
            [] Head(t) = NL -> <<"\\", "n">>
            [] OTHER -> <<Head(t)>>)
         \o JsonEscape(Tail(t))

JsonString(t) == <<"\"">> \o JsonEscape(t) \o <<"\"">>

\* json.dumps of a dict whose values are already encoded: "key": value
JsonPair(k, encoded) == JsonString(k) \o <<":", " ">> \o encoded
JsonObject(pairs) == <<"{">> \o JoinWith(pairs, <<",", " ">>) \o <<"}">>

\* json.dumps({"type": action_type, "data": data})
JsonAction(action_type, data) ==
    JsonObject(<<JsonPair(<<"t", "y", "p", "e">>, JsonString(action_type)),
                 JsonPair(<<"d", "a", "t", "a">>, data)>>)

\* whiteboard_tools.py lines 24-31 and 242: one record
Record(payload) == <<NL>> \o START_ACTION \o payload \o END_ACTION \o <<NL>>

emit_action(action_type, data) == Record(JsonAction(action_type, data))

\* the data dict of create_text_node, lines 161-167
TextNodeData(title, text) ==
    JsonObject(<<JsonPair(<<"t", "i", "t", "l", "e">>, JsonString(title)),
                 JsonPair(<<"n", "o", "d", "e", "_", "t", "y", "p", "e">>, JsonString(<<"t", "e", "x", "t">>)),
                 JsonPair(<<"d", "a", "t", "a">>, JsonObject(<<JsonPair(<<"c", "o", "n", "t", "e", "n", "t">>, JsonString(text))>>))>>)

\* titles and contents the agent may pass: plain text, text with a quote
\* and a backslash, text that holds a marker
PayloadTexts ==
    {<<"a">>,
     <<"\"", "q", "\\">>,
     <<"x", ":", "A", "C", "T", "I", "O", "N", ">", ">", ">", "y">>,
     <<"<", "<", "<", "A", "C", "T", "I", "O", "N", ":", "z">>}

create_text_node(title, text) ==
    /\ toolCall = NoCall
    /\ toolCall' = [name |-> "create_text_node", args |-> <<title, text>>]
    /\ toolOutput' = emit_action(CREATE_NODE, TextNodeData(title, text))
    /\ UNCHANGED <<storeVars, stmt, orchestratorVars, streamVars, entityVars>>

\* str.split(sep) for a one-character sep
RECURSIVE Split(_, _)
Split(t, sep) ==
    IF \A i \in 1..Len(t) : t[i] # sep THEN <<t>>
    ELSE LET i == CHOOSE i \in 1..Len(t) : t[i] = sep /\ \A j \in 1..(i - 1) : t[j] # sep
         IN  <<SubSeq(t, 1, i - 1)>> \o Split(SubSeq(t, i + 1, Len(t)), sep)

WhiteSpace == {" ", NL, "\t"}

\* str.strip() on text
RECURSIVE StripText(_)
StripText(t) ==
    IF t = <<>> THEN <<>>
    ELSE IF Head(t) \in WhiteSpace THEN StripText(Tail(t))
    ELSE IF t[Len(t)] \in WhiteSpace THEN StripText(SubSeq(t, 1, Len(t) - 1))
    ELSE t

\* line 222
TickerList(tickers) ==
    LET fields == Split(tickers, ",")
    IN  [i \in 1..Len(fields) |-> Upper(StripText(fields[i]))]

\* ticker_list[:6]
TickerCap == 6
Capped(ticker_list) ==
    SubSeq(ticker_list, 1, IF Len(ticker_list) < TickerCap THEN Len(ticker_list) ELSE TickerCap)

\* lines 226-237: the action of one ticker, encoded
ChartAction(ticker) ==
    JsonAction(CREATE_CHART,
               JsonObject(<<JsonPair(<<"t", "i", "t", "l", "e">>, JsonString(ticker \o <<" ", "C", "h", "a", "r", "t">>)),
                            JsonPair(<<"n", "o", "d", "e", "_", "t", "y", "p", "e">>, JsonString(<<"c", "h", "a", "r", "t">>)),
                            JsonPair(<<"c", "h", "a", "r", "t">>,
                                     JsonObject(<<JsonPair(<<"t", "i", "c", "k", "e", "r">>, JsonString(ticker)),
                                                  JsonPair(<<"c", "h", "a", "r", "t", "T", "y", "p", "e">>, JsonString(<<"l", "i", "n", "e">>)),
                                                  JsonPair(<<"t", "i", "m", "e", "f", "r", "a", "m", "e">>, JsonString(<<"1", "M">>))>>))>>))

\* all the actions in one record, as a JSON list
PortfolioCombined(ticker_list) ==
    LET capped == Capped(ticker_list)
    IN  Record(<<"[">> \o JoinWith([i \in 1..Len(capped) |-> ChartAction(capped[i])],
                                   <<",", " ">>) \o <<"]">>)

\* lines 225-242: one record per ticker of ticker_list[:6]
PortfolioRecords(ticker_list) ==
    LET capped == Capped(ticker_list)
    IN  JoinWith([i \in 1..Len(capped) |-> Record(ChartAction(capped[i]))], <<>>)

\* the fields of the tickers argument: a symbol, one with blanks around it,
\* nothing
TickerFields == {<<"a">>, <<" ", "b", " ">>, <<>>}

TickerInputs ==
    {JoinWith(fields, <<",">>) :
        fields \in UNION {[1..n -> TickerFields] : n \in 0..MaxTickers}}

analyze_portfolio(tickers) ==
    LET ticker_list == TickerList(tickers)
    IN  /\ toolCall = NoCall
        /\ toolCall' = [name |-> "analyze_portfolio", args |-> <<tickers>>]
        /\ toolOutput' = PortfolioRecords(ticker_list)
                         \o <<"\n", "C", "r", "e", "a", "t", "e", "d", " ", "p", "o", "r", "t", "f", "o", "l", "i", "o", " ", "v", "i", "e", "w", " ", "f", "o", "r", ":", " ">>
                         \o JoinWith(ticker_list, <<",", " ">>)
        /\ UNCHANGED <<storeVars, stmt, orchestratorVars, streamVars, entityVars>>

\* the agent takes the tool's output
ToolReturn ==
    /\ toolCall # NoCall
    /\ toolCall' = NoCall
    /\ toolOutput' = <<>>
    /\ UNCHANGED <<storeVars, stmt, orchestratorVars, streamVars, entityVars>>

NextBoard ==
    \/ \E title \in PayloadTexts, text \in PayloadTexts : create_text_node(title, text)
    \/ \E tickers \in TickerInputs : analyze_portfolio(tickers)
    \/ ToolReturn

SpecBoard == Init /\ [][NextBoard]_vars

\* The presentation layer's splitter: the places where pattern occurs in t,
\* and the payloads between each start marker and the first end marker
\* after it.
Occurrences(t, pattern) ==
    {i \in 1..(Len(t) + 1 - Len(pattern)) : SubSeq(t, i, i + Len(pattern) - 1) = pattern}

First(places) == CHOOSE i \in places : \A j \in places : i <= j

RECURSIVE SplitRecords(_)
SplitRecords(t) ==
    LET starts == Occurrences(t, START_ACTION)
    IN  IF starts = {} THEN <<>>
        ELSE LET body == SubSeq(t, First(starts) + Len(START_ACTION), Len(t))
                 ends == Occurrences(body, END_ACTION)
             IN  IF ends = {} THEN <<>>
                 ELSE <<SubSeq(body, 1, First(ends) - 1)>>
                      \o SplitRecords(SubSeq(body, First(ends) + Len(END_ACTION), Len(body)))

(***************************************************************************)
(* api.py: generate_stream.  The stream is the sequence of the chunks it   *)
(* yields; a chunk is kept as its kind and, for a status and an action,    *)
(* the tool it is about.                                                   *)
(***************************************************************************)
\* most chunks of one stream in the model
MaxChunks == 5

\* tools the agent may run
Tools == {"research_and_learn", "create_text_node"}

TextChunk == <<"text">>
StatusChunk(tool) == <<"status", tool>>
\* "\n<<<STATUS::STATUS>>>\n"
ClearChunk == <<"clear">>
ActionChunk(tool) == <<"action", tool>>
\* "Error: " followed by the message of the exception
ErrorChunk(e) == <<"error", e>>

Yield(chunks) ==
    /\ Len(stream) + Len(chunks) <= MaxChunks
    /\ stream' = stream \o chunks

\* lines 231-246: the executor is fetched and the events are asked for;
\* get_agent_executor may raise, into the except clause
StreamOpen ==
    /\ streamPc = "idle"
    /\ \/ /\ streamPc' = "open"
          /\ UNCHANGED stream
       \/ /\ \E e \in Errors : Yield(<<ErrorChunk(e)>>)
          /\ streamPc' = "ended"
    /\ UNCHANGED <<storeVars, stmt, orchestratorVars, boardVars, entityVars, running>>

\* lines 254-260: a token of the model; an empty one is not yielded
OnChatModelStream(hasContent) ==
    /\ streamPc = "open"
    /\ IF hasContent THEN Yield(<<TextChunk>>) ELSE UNCHANGED stream
    /\ UNCHANGED <<storeVars, stmt, orchestratorVars, boardVars, entityVars, running, streamPc>>

\* lines 287-308
OnToolStart(tool) ==
    /\ streamPc = "open"
    /\ tool \notin running
    /\ running' = running \cup {tool}
    /\ Yield(<<StatusChunk(tool)>>)
    /\ UNCHANGED <<storeVars, stmt, orchestratorVars, boardVars, entityVars, streamPc>>

\* lines 263-284: the output is yielded when it holds an action marker,
\* then the clearing status
OnToolEnd(tool, hasAction) ==
    /\ streamPc = "open"
    /\ tool \in running
    /\ running' = running \ {tool}
    /\ Yield((IF hasAction THEN <<ActionChunk(tool)>> ELSE <<>>) \o <<ClearChunk>>)
    /\ UNCHANGED <<storeVars, stmt, orchestratorVars, boardVars, entityVars, streamPc>>

\* an event of another kind, which no branch of lines 254-308 takes: here
\* the end of a tool run that raised and whose error the agent turned into
\* a message for the model
OnToolError(tool) ==
    /\ streamPc = "open"
    /\ tool \in running
    /\ running' = running \ {tool}
    /\ UNCHANGED <<storeVars, stmt, orchestratorVars, boardVars, entityVars, stream, streamPc>>

\* lines 310-314: the event loop raises (the model call fails, a tool's
\* exception is passed on, the recursion limit is hit)
StreamRaises ==
    /\ streamPc = "open"
    /\ \E e \in Errors : Yield(<<ErrorChunk(e)>>)
    /\ streamPc' = "ended"
    /\ running' = {}
    /\ UNCHANGED <<storeVars, stmt, orchestratorVars, boardVars, entityVars>>

\* the events are exhausted
StreamEnds ==
    /\ streamPc = "open"
    /\ running = {}
    /\ streamPc' = "ended"
    /\ UNCHANGED <<storeVars, stmt, orchestratorVars, boardVars, entityVars, stream, running>>

\* the next request
StreamNext ==
    /\ streamPc = "ended"
    /\ streamPc' = "idle"
    /\ stream' = <<>>
    /\ UNCHANGED <<storeVars, stmt, orchestratorVars, boardVars, entityVars, running>>

NextStream ==
    \/ StreamOpen
    \/ \E hasContent \in BOOLEAN : OnChatModelStream(hasContent)
    \/ \E tool \in Tools : OnToolStart(tool)
    \/ \E tool \in Tools, hasAction \in BOOLEAN : OnToolEnd(tool, hasAction)
    \/ \E tool \in Tools : OnToolError(tool)
    \/ StreamRaises
    \/ StreamEnds
    \/ StreamNext

SpecStream == Init /\ [][NextStream]_vars

(***************************************************************************)
(* api.py and app.py: extract_entity_from_query                            *)
(***************************************************************************)
\* most tokens of a query in the model
MaxWords == 3

\* known_entities, in the order of the list
KnownEntities ==
    <<<<"O", "p", "e", "n", "A", "I">>,
      <<"A", "n", "t", "h", "r", "o", "p", "i", "c">>,
      <<"P", "e", "r", "p", "l", "e", "x", "i", "t", "y">>,
      <<"D", "a", "t", "a", "b", "r", "i", "c", "k", "s">>,
      <<"Z", "e", "p", "t", "o">>,
      <<"S", "w", "i", "g", "g", "y">>,
      <<"Z", "o", "m", "a", "t", "o">>,
      <<"B", "l", "i", "n", "k", "i", "t">>,
      <<"M", "e", "e", "s", "h", "o">>,
      <<"M", "i", "c", "r", "o", "s", "o", "f", "t">>,
      <<"N", "V", "I", "D", "I", "A">>,
      <<"S", "o", "f", "t", "B", "a", "n", "k">>,
      <<"G", "o", "o", "g", "l", "e">>,
      <<"A", "m", "a", "z", "o", "n">>>>

\* the prefixes of api.py lines 102-105, each followed by \s+ in the pattern
ApiPrefixes ==
    <<<<"r", "e", "s", "e", "a", "r", "c", "h">>,
      <<"a", "n", "a", "l", "y", "z", "e">>,
      <<"w", "r", "i", "t", "e", " ", "a", "n", " ", "i", "n", "v", "e", "s", "t", "m", "e", "n", "t", " ", "m", "e", "m", "o", " ", "f", "o", "r">>,
      <<"m", "e", "m", "o", " ", "f", "o", "r">>,
      <<"t", "e", "l", "l", " ", "m", "e", " ", "a", "b", "o", "u", "t">>>>

\* the prefixes of app.py lines 36-42
AppPrefixes ==
    <<<<"r", "e", "s", "e", "a", "r", "c", "h">>,
      <<"a", "n", "a", "l", "y", "z", "e">>,
      <<"a", "n", "a", "l", "y", "s", "e">>,
      <<"i", "n", "v", "e", "s", "t", "m", "e", "n", "t", " ", "m", "e", "m", "o", " ", "f", "o", "r">>,
      <<"m", "e", "m", "o", " ", "f", "o", "r">>,
      <<"w", "r", "i", "t", "e", " ", "a", "n", " ", "i", "n", "v", "e", "s", "t", "m", "e", "n", "t", " ", "f", "o", "r">>,
      <<"w", "r", "i", "t", "e", " ", "a", " ", "r", "e", "p", "o", "r", "t", " ", "o", "n">>,
      <<"w", "r", "i", "t", "e", " ", "a", "n", " ", "i", "n", "v", "e", "s", "t", "m", "e", "n", "t", " ", "m", "e", "m", "o", " ", "f", "o", "r">>,
      <<"t", "e", "l", "l", " ", "m", "e", " ", "a", "b", "o", "u", "t">>,
      <<"w", "h", "o", " ", "i", "s">>,
      <<"w", "h", "a", "t", " ", "i", "s">>>>

\* Python's part in t
Contains(t, part) ==
    \E i \in 1..(Len(t) + 1 - Len(part)) : SubSeq(t, i, i + Len(part) - 1) = part

\* the white space at the head of t removed
RECURSIVE DropWhiteSpace(_)
DropWhiteSpace(t) ==
    IF t # <<>> /\ Head(t) \in WhiteSpace THEN DropWhiteSpace(Tail(t)) ELSE t

\* re.sub("^" + prefix + "\s+", "", t, flags=re.IGNORECASE)
RemovePrefix(t, prefix) ==
    IF /\ Len(t) > Len(prefix)
       /\ Lower(SubSeq(t, 1, Len(prefix))) = prefix
       /\ t[Len(prefix) + 1] \in WhiteSpace
    THEN DropWhiteSpace(SubSeq(t, Len(prefix) + 1, Len(t)))
    ELSE t

\* the loop over the prefixes: each pattern is applied once, in order
RECURSIVE RemovePrefixes(_, _)
RemovePrefixes(t, prefixes) ==
    IF prefixes = <<>> THEN t
    ELSE RemovePrefixes(RemovePrefix(t, Head(prefixes)), Tail(prefixes))

IsLetter(c) == c \in IdentChars \ {"_"}

\* str.title(): a letter is made upper case after a character that is no
\* letter and at the start, lower case after a letter
Title(t) ==
    [i \in 1..Len(t) |->
        IF i = 1 \/ ~IsLetter(t[i - 1]) THEN UpperChar(t[i]) ELSE LowerChar(t[i])]

ExtractEntity(q, prefixes) ==
    LET query_lower == Lower(q)
        hits == {i \in 1..Len(KnownEntities) : Contains(query_lower, Lower(KnownEntities[i]))}
    IN  IF q = <<>> THEN <<>>
        ELSE IF hits # {}
             THEN KnownEntities[CHOOSE i \in hits : \A j \in hits : i <= j]
        ELSE Title(StripText(RemovePrefixes(q, prefixes)))

\* what queries are made of
QueryTokens ==
    {<<" ">>, <<"r", "e", "s", "e", "a", "r", "c", "h">>, <<"o", "p", "e", "n", "a", "i">>, <<"a", "c", "m", "e">>, <<"t", "e", "l", "l", " ", "m", "e", " ", "a", "b", "o", "u", "t">>, <<"w", "h", "o", " ", "i", "s">>, <<"O", "'", "R">>}

Queries ==
    {JoinWith(tokens, <<>>) :
        tokens \in UNION {[1..n -> QueryTokens] : n \in 0..MaxWords}}

\* api.py lines 90-109
extract_entity_from_query(q) ==
    /\ query = None
    /\ query' = q
    /\ entity' = ExtractEntity(q, ApiPrefixes)
    /\ UNCHANGED <<storeVars, stmt, orchestratorVars, boardVars, streamVars>>

\* app.py lines 19-48
app_extract_entity_from_query(q) ==
    /\ query = None
    /\ query' = q
    /\ entity' = ExtractEntity(q, AppPrefixes)
    /\ UNCHANGED <<storeVars, stmt, orchestratorVars, boardVars, streamVars>>

\* the caller takes the entity
EntityReturn ==
    /\ query # None
    /\ query' = None
    /\ entity' = <<>>
    /\ UNCHANGED <<storeVars, stmt, orchestratorVars, boardVars, streamVars>>

NextEntity ==
    \/ \E q \in Queries : extract_entity_from_query(q)
    \/ \E q \in Queries : app_extract_entity_from_query(q)
    \/ EntityReturn

SpecEntity == Init /\ [][NextEntity]_vars

(***************************************************************************)
(* Conversation turns: agent.py run_chat and api.py generate_stream.  A    *)
(* message is its type and content; the agent returns the messages it was  *)
(* handed followed by the ones it made.  served keeps, for each front end, *)
(* the messages of the turns taken so far.                                 *)
(***************************************************************************)
\* most turns of one front end in the model
MaxTurns == 2

HumanMessage(c) == [type |-> "human", content |-> c]
AIMessage(c) == [type |-> "ai", content |-> c]
ToolMessage(c) == [type |-> "tool", content |-> c]

\* what the user types
UserInputs == {<<"hello">>, <<"research Acme">>}

\* what the agent adds to the messages in one run: an answer, or a tool
\* call, its result and an answer
AgentAdds ==
    {<<AIMessage(<<"answer">>)>>,
     <<AIMessage(<<>>), ToolMessage(<<"result">>), AIMessage(<<"answer">>)>>}

Modes == {"chat", "research"}

\* api.py lines 235-237
AugmentedQuery(q, mode) ==
    IF mode = "research" THEN q \o <<"[INSTRUCTION]: I am in RESEARCH MODE.">> ELSE q

Turns(f) == Cardinality({i \in 1..Len(served[f]) : served[f][i].type = "human"})

\* agent.py lines 26-54: one pass of the loop with an input that is not exit
\* or quit; the last event holds the agent's final messages
RunChatTurn(user_input, adds) ==
    LET current_messages == chat_history \o <<HumanMessage(user_input)>>
        final == current_messages \o adds
    IN  /\ Turns("run_chat") < MaxTurns
        /\ chat_history' = final
        /\ served' = [served EXCEPT !["run_chat"] = @ \o <<HumanMessage(user_input)>> \o adds]
        /\ turn' = [by |-> "run_chat", prior |-> served["run_chat"],
                    input |-> user_input, handed |-> current_messages,
                    returned |-> final, kept |-> final]
        /\ UNCHANGED <<storeVars, stmt, boardVars, streamVars, entityVars, cacheVars, jobVars>>

\* agent.py lines 27-29: exit or quit leaves the loop, and so does an
\* exception of the agent; the history is a local of run_chat
RunChatEnds ==
    /\ served["run_chat"] # <<>>
    /\ chat_history' = <<>>
    /\ served' = [served EXCEPT !["run_chat"] = <<>>]
    /\ turn' = NoTurn
    /\ UNCHANGED <<storeVars, stmt, boardVars, streamVars, entityVars, cacheVars, jobVars>>

\* api.py lines 229-246, 316-322: one request; the agent is handed the
\* query of the request as its only message, and nothing is kept
ServeRequest(q, mode, adds) ==
    LET handed == <<HumanMessage(AugmentedQuery(q, mode))>>
    IN  /\ Turns("generate_stream") < MaxTurns
        /\ served' = [served EXCEPT !["generate_stream"] = @ \o <<HumanMessage(q)>> \o adds]
        /\ turn' = [by |-> "generate_stream", prior |-> served["generate_stream"],
                    input |-> q, handed |-> handed,
                    returned |-> handed \o adds, kept |-> <<>>]
        /\ UNCHANGED <<storeVars, stmt, boardVars, streamVars, entityVars, cacheVars, jobVars,
                       chat_history>>

NextChat ==
    \/ \E user_input \in UserInputs, adds \in AgentAdds : RunChatTurn(user_input, adds)
    \/ RunChatEnds
    \/ \E q \in UserInputs, mode \in Modes, adds \in AgentAdds : ServeRequest(q, mode, adds)

SpecChat == Init /\ [][NextChat]_vars

(***************************************************************************)
(* tools.py: two research_and_learn calls of two sessions running side by  *)
(* side.  Each graph.query call is one statement of the store, run on its  *)
(* own; the calls take no lock and open no transaction around their loops. *)
(***************************************************************************)
\* extraction results of the two calls: the specification's example, and
\* two that divide it, one with the company and the relationships, one with
\* the investor and the person
ConcurrentData ==
    <<[companies |-> <<Acme, Acorn>>, people |-> <<Jane>>, sectors |-> <<>>,
       locations |-> <<>>,
       relationships |-> <<[source |-> Jane, target |-> Acme, type |-> LEADS],
                           [source |-> Acorn, target |-> Acme, type |-> INVESTED_IN]>>],
      [companies |-> <<Acme>>, people |-> <<>>, sectors |-> <<>>,
       locations |-> <<>>,
       relationships |-> <<[source |-> Jane, target |-> Acme, type |-> LEADS],
                           [source |-> Acorn, target |-> Acme, type |-> INVESTED_IN]>>],
      [companies |-> <<Acorn>>, people |-> <<Jane>>, sectors |-> <<>>,
       locations |-> <<>>, relationships |-> <<>>],
      [companies |-> <<Acme>>, people |-> <<Jane>>, sectors |-> <<>>,
       locations |-> <<>>,
       relationships |-> <<[source |-> Acme, target |-> Jane,
                            type |-> <<"S", "t", "a", "r", "t", "e", "d", " ", "b", "y">>],
                           [source |-> Jane, target |-> Acme, type |-> LEADS]>>]>>

JobStatements(s) == IngestStatements(ConcurrentData[job[s].data])

\* the call of session s has returned
JobDone(s) ==
    /\ job[s].data # 0
    /\ job[s].ended \/ job[s].at = Len(JobStatements(s))

\* two sessions call research_and_learn; each has its extraction result
ConcurrentStart(d1, d2) ==
    /\ \A s \in Sessions : job[s] = NoJob
    /\ job' = [s \in Sessions |-> [data |-> IF s = 1 THEN d1 ELSE d2, at |-> 0, ended |-> FALSE]]
    /\ base' = graph
    /\ UNCHANGED <<storeVars, stmt, boardVars, streamVars, entityVars, chatVars, cacheVars>>

\* lines 92-107: session s issues its next statement; one the store refuses
\* raises into the except clause of lines 115-116 and ends the call
IngestStep(s) ==
    /\ job[s].data # 0
    /\ ~JobDone(s)
    /\ LET r == IngestStmt(graph, JobStatements(s)[job[s].at + 1])
       IN  /\ graph' = r.g
           /\ job' = [job EXCEPT ![s] = [@ EXCEPT !.at = @ + 1, !.ended = ~r.ok]]
    /\ UNCHANGED <<searchAvailable, pc, rawText, content, key, cur, result, fault,
                   oracleCalled, wrote, relIssued, stmt, boardVars, streamVars,
                   entityVars, chatVars, cacheVars, base>>

\* both calls have returned
ConcurrentReturn ==
    /\ \A s \in Sessions : JobDone(s)
    /\ job' = [s \in Sessions |-> NoJob]
    /\ UNCHANGED <<storeVars, stmt, boardVars, streamVars, entityVars, chatVars, cacheVars, base>>

NextConcurrent ==
    \/ \E d1, d2 \in 1..Len(ConcurrentData) : ConcurrentStart(d1, d2)
    \/ \E s \in Sessions : IngestStep(s)
    \/ ConcurrentReturn

SpecConcurrent == Init /\ [][NextConcurrent]_vars

(***************************************************************************)
(* api.py: the agent cache.  An agent is the number of its creation; the   *)
(* cache is the set of its entries, each a cache key and an agent.         *)
(***************************************************************************)
\* most agents created in the model
MaxAgents == 3

Providers == {"groq", "openai"}

\* Python's None as the model of a request
ModelNone == "None"

\* the model of a request: left out, empty, or a name
ModelIds == {ModelNone, "", "default", "gpt-4o"}

\* line 191: f"{provider}:{model or 'default'}", kept as its three parts
\* (no provider holds a colon); None and the empty string are falsy
CacheKey(provider, model) ==
    <<provider, ":", IF model \in {ModelNone, ""} THEN "default" ELSE model>>

\* the entries of the cache under a key
Cached(cache_key) == {e \in agent_cache : e[1] = cache_key}

\* get_agent_executor that stores an entry before the agent is there
GetAgentExecutorEager(provider, model, creates) ==
    LET cache_key == CacheKey(provider, model)
        hit == Cached(cache_key)
        first == \A e \in looked : e[1] # cache_key
    IN  /\ IF hit # {}
           THEN /\ looked' = looked \cup hit
                /\ lookup' = [provider |-> provider, model |-> model, outcome |-> "returned",
                              agent |-> (CHOOSE e \in hit : TRUE)[2], created |-> FALSE,
                              first |-> first, before |-> agent_cache]
                /\ UNCHANGED <<agent_cache, agents>>
           ELSE /\ agents < MaxAgents
                /\ agents' = agents + 1
                /\ agent_cache' = agent_cache \cup {<<cache_key, agents + 1>>}
                /\ IF creates
                   THEN /\ looked' = looked \cup {<<cache_key, agents + 1>>}
                        /\ lookup' = [provider |-> provider, model |-> model,
                                      outcome |-> "returned", agent |-> agents + 1,
                                      created |-> TRUE, first |-> first,
                                      before |-> agent_cache]
                   ELSE /\ lookup' = [provider |-> provider, model |-> model,
                                      outcome |-> "raised", agent |-> 0, created |-> FALSE,
                                      first |-> first, before |-> agent_cache]
                        /\ UNCHANGED looked
        /\ UNCHANGED <<storeVars, stmt, boardVars, streamVars, entityVars, chatVars, jobVars>>

\* lines 189-194.  creates: get_agent returns an agent (lines 172-184);
\* otherwise get_llm raises (lines 154-163) and line 193 assigns nothing
get_agent_executor(provider, model, creates) ==
    LET cache_key == CacheKey(provider, model)
        hit == Cached(cache_key)
        first == \A e \in looked : e[1] # cache_key
    IN  /\ IF hit # {}
           THEN /\ looked' = looked \cup hit
                /\ lookup' = [provider |-> provider, model |-> model, outcome |-> "returned",
                              agent |-> (CHOOSE e \in hit : TRUE)[2], created |-> FALSE,
                              first |-> first, before |-> agent_cache]
                /\ UNCHANGED <<agent_cache, agents>>
           ELSE IF creates
           THEN /\ agents < MaxAgents
                /\ agents' = agents + 1
                /\ agent_cache' = agent_cache \cup {<<cache_key, agents + 1>>}
                /\ looked' = looked \cup {<<cache_key, agents + 1>>}
                /\ lookup' = [provider |-> provider, model |-> model, outcome |-> "returned",
                              agent |-> agents + 1, created |-> TRUE, first |-> first,
                              before |-> agent_cache]
           ELSE /\ lookup' = [provider |-> provider, model |-> model, outcome |-> "raised",
                              agent |-> 0, created |-> FALSE, first |-> first,
                              before |-> agent_cache]
                /\ UNCHANGED <<agent_cache, agents, looked>>
        /\ UNCHANGED <<storeVars, stmt, boardVars, streamVars, entityVars, chatVars, jobVars>>

\* lines 196-200, and lines 203-205 at startup
clear_agent_cache ==
    /\ agent_cache' = {}
    /\ looked' = {}
    /\ lookup' = NoLookup
    /\ UNCHANGED <<storeVars, stmt, boardVars, streamVars, entityVars, chatVars, jobVars,
                   agents>>

NextCache ==
    \/ \E provider \in Providers, model \in ModelIds, creates \in BOOLEAN :
          get_agent_executor(provider, model, creates)
    \/ clear_agent_cache

SpecCache == Init /\ [][NextCache]_vars

(***************************************************************************)
(* Claims.                                                                 *)
(***************************************************************************)
\* the nodes of g that carry the id
NodesWithId(g, id) == {n \in g.nodes : NodeId(n) = id}

\* the edges of g between nodes with these ids, of this type
EdgesOfTriple(g, source, type, target) ==
    {e \in g.edges : NodeId(e[1]) = source /\ e[2] = type /\ NodeId(e[3]) = target}

\* C1: in every reachable state of the store at most one node exists for a
\* given id, whatever labels the id was upserted with.
C1_OneNodePerId ==
    \A n \in graph.nodes : NodesWithId(graph, NodeId(n)) = {n}

\* C2: in every reachable state of the store at most one edge exists for
\* each (source id, target id, relationship type) triple.
C2_OneEdgePerTriple ==
    \A e \in graph.edges :
        EdgesOfTriple(graph, NodeId(e[1]), e[2], NodeId(e[3])) = {e}

\* C3: from every reachable state of the store, upserting the same node twice
\* with the same id and label (a mention of an extraction result listed
\* under key k) leaves exactly one node for that id, which carries the label
\* supplied, and the second upsert changes nothing the first one wrote.
C3_UpsertTwiceOneNode ==
    \A k \in 1..4 : \A item \in Mentions(k) :
        LET once == StmtMergeEntity(graph, KeyLabel(k), item).g
            twice == StmtMergeEntity(once, KeyLabel(k), item).g
        IN  /\ twice = once
            /\ Cardinality(NodesWithId(twice, item)) = 1
            /\ \A n \in NodesWithId(twice, item) : KeyLabel(k) \in twice.labels[n]

C5_ReturnsString ==
    \A s \in Sessions :
        pc[s] \in {"done", "raised"} => (pc[s] = "done" /\ result[s] # NoResult)

\* C6: a query_graph_database call that met a failure of the oracle (while
\* the chain was built or invoked), a failure of the generated query or an
\* empty result has returned the sentinel message, and has not raised.
C6_SentinelOnFailure ==
    \A s \in Sessions :
        (pc[s] \in {"q_done", "q_raised"} /\ fault[s] \in {"build", "oracle", "query", "empty"})
            => (pc[s] = "q_done" /\ result[s] = NoInfo)

\* C7: a research_and_learn call whose web search failed or gave empty text
\* issues no completion request and no store statement, and its result is
\* one of the no-data results.
C7_NoOracleOnEmptySearch ==
    \A s \in Sessions :
        (pc[s] \in {"extract", "nodes", "rels", "rel_merge", "done", "raised"}
         /\ (fault[s] = "search" \/ rawText[s] = EmptyText))
            => /\ ~oracleCalled[s]
               /\ ~wrote[s]
               /\ pc[s] = "done" => result[s].kind \in {SearchUnavailable.kind, "Search failed: "}

\* the output is not JSON once the fences are stripped
ParseFails(c) == c # None /\ ~JsonLoads(CleanJson(c)).ok

C10_TypesInVocabulary ==
    \A e \in graph.edges : e[2] \in RelationshipVocabulary

\* the store reads the spliced text back as the string the code meant
Safe(splice) ==
    CASE splice.kind = "param" -> TRUE
      [] splice.kind = "literal" ->
            ReadLiteral(splice.text) = [ok |-> TRUE, val |-> splice.want]
      [] splice.kind = "ident" ->
            ReadIdent(splice.text) = [ok |-> TRUE, val |-> splice.want]

\* C9: every string carried by a statement handed to the store is a bound
\* parameter, or is spliced so that the store reads it back as that string.
C9_NoUnescapedSplice ==
    \A i \in 1..Len(stmt) :
        \A j \in 1..Len(stmt[i].splices) : Safe(stmt[i].splices[j])

\* the relationships of data in the order p
Reordered(data, p) ==
    [data EXCEPT !.relationships = [i \in 1..Len(data.relationships) |->
                                       data.relationships[p[i]]]]

\* C11: from every reachable store and for every extraction result, the
\* store after the call's writes is the same for every order of the
\* relationships list.
C11_RelationshipOrderIrrelevant ==
    \A data \in Extractions :
        \A p \in Permutations(1..Len(data.relationships)) :
            RunIngest(graph, IngestStatements(Reordered(data, p))).g
                = RunIngest(graph, IngestStatements(data)).g

\* C12: within one call no node upsert of the mentioned entities is issued
\* once a promotion or an edge upsert has been issued, and the promotions
\* and edge upserts are issued only after the node loop was left.
C12_NodesBeforeRelationships ==
    [][\A s \in Sessions :
          /\ MergeEntity(s) => ~relIssued[s] /\ ~relIssued'[s]
          /\ (~relIssued[s] /\ relIssued'[s]) => pc[s] \in {"rels", "rel_merge"}
          /\ relIssued[s] => pc'[s] # "nodes"]_vars

\* C12's case: node upserts were issued down to the people, then a
\* promotion, and the edge upsert of the same relationship is next
C12_Witness ==
    /\ pc[1] = "rel_merge"
    /\ relIssued[1]
    /\ key[1] = 2
    /\ \E n \in graph.nodes : NodeId(n) = cur[1].source
    /\ \E n \in graph.nodes : NodeId(n) = cur[1].target

\* C13: when the edge upsert of a relationship is issued while no node has
\* its source id or its target id, either the call is ended by the store's
\* refusal, or afterwards nodes with both ids exist and the edge joins them.
C13_DanglingRejectedOrCreated ==
    [][\A s \in Sessions :
          (/\ RelMerge(s)
           /\ \/ NodesWithId(graph, cur[s].source) = {}
              \/ NodesWithId(graph, cur[s].target) = {})
          => \/ pc'[s] = "done" /\ fault'[s] = "store"
             \/ EdgesOfTriple(graph', cur[s].source, cur[s].type, cur[s].target) # {}]_vars

\* g holds everything h holds: its nodes, their labels, its edges
Keeps(g, h) ==
    /\ h.nodes \subseteq g.nodes
    /\ \A n \in h.nodes : h.labels[n] \subseteq g.labels[n]
    /\ h.edges \subseteq g.edges

Ingested(g, data) ==
    /\ \A k \in 1..4 : \A i \in 1..Len(DataList(data, k)) :
          MatchNodes(g, KeyLabel(k), DataList(data, k)[i]) # {}
    /\ \A i \in 1..Len(data.relationships) :
          LET rel == data.relationships[i]
          IN  /\ Upper(rel.type) = INVESTED_IN =>
                    \A n \in NodesWithId(g, rel.source) : "Investor" \in g.labels[n]
              /\ (rel.source \in Mentioned(data) /\ rel.target \in Mentioned(data)) =>
                    EdgesOfTriple(g, rel.source, Upper(rel.type), rel.target) # {}

\* C15: from every reachable store and for every extraction result, after
\* the call's writes the store holds a node with the list's label for every
\* mentioned name, Investor on every INVESTED_IN source, and an edge for
\* every relationship between mentioned names.
C15_IngestedGraph ==
    \A data \in Extractions :
        Ingested(RunIngest(graph, IngestStatements(data)).g, data)

\* C16: from every reachable store and for every list companies, after the
\* statements of create_competition(companies) the store holds COMPETES_WITH
\* edges in both directions between every two distinct members of companies.
C16_CompetitionBothWays ==
    \A companies \in CompetitionLists :
        LET after == RunCompetition(graph, companies, 1, 2).g
        IN  \A i \in 1..Len(companies), j \in 1..Len(companies) :
                companies[i] # companies[j] =>
                    EdgesOfTriple(after, companies[i], COMPETES_WITH, companies[j]) # {}

\* C17: the record create_text_node returns holds the start marker at its
\* beginning only and the end marker at its end only, and splitting it
\* gives back the one encoded payload.
C17_MarkersOnlyAtEnds ==
    toolCall.name = "create_text_node" =>
        /\ Occurrences(toolOutput, START_ACTION) = {2}
        /\ Occurrences(toolOutput, END_ACTION) = {Len(toolOutput) - Len(END_ACTION)}
        /\ SplitRecords(toolOutput)
              = <<JsonAction(CREATE_NODE, TextNodeData(toolCall.args[1], toolCall.args[2]))>>

\* the comma-separated fields of tickers, counted by the commas
FieldCount(tickers) == Cardinality({i \in 1..Len(tickers) : tickers[i] = ","}) + 1

StatusMarkers(chunks) == SelectSeq(chunks, LAMBDA c : c[1] \in {"status", "clear"})

\* C19: in a stream that has ended the last status marker, if there is one,
\* is a clearing one, and while it runs every tool's status marker that no
\* clearing marker follows belongs to a tool still running.
C19_StatusCleared ==
    LET markers == StatusMarkers(stream)
    IN  /\ streamPc = "ended" =>
              (markers = <<>> \/ markers[Len(markers)] = ClearChunk)
        /\ streamPc = "open" =>
              \A i \in 1..Len(markers) :
                  (markers[i] # ClearChunk /\ \A j \in (i + 1)..Len(markers) : markers[j] # ClearChunk)
                      => markers[i][2] \in running

\* C20: what extract_entity_from_query returned is its query with the white
\* space around it trimmed, in title case; the empty string for a query that
\* is empty or white space only.
C20_TrimmedTitleCase ==
    query # None => entity = Title(StripText(query))

\* C21: a conversation turn hands the agent the messages of all prior turns
\* followed by the new user input, and the history kept after the turn is
\* the message sequence the agent returned; for the turns of run_chat and for
\* the requests generate_stream serves.
C21_FullHistoryEachTurn ==
    turn.by # "none" =>
        /\ turn.handed = turn.prior \o <<HumanMessage(turn.input)>>
        /\ turn.kept = turn.returned

\* C22: a failure result is a fixed sentence: the result of a
\* research_and_learn call that met a failure, and an error chunk of
\* generate_stream, carry no text of the exception.
C22_FixedFallbackSentence ==
    /\ \A s \in Sessions :
          (pc[s] = "done" /\ fault[s] # "none") => result[s].detail = <<>>
    /\ \A i \in 1..Len(stream) : stream[i][1] = "error" => stream[i][2] = <<>>

\* the store after the ingestion of a and then that of b, from g
Serial(g, a, b) ==
    RunIngest(RunIngest(g, IngestStatements(a)).g, IngestStatements(b)).g

\* C23: when two research_and_learn calls that ran side by side, their
\* statements interleaved, have both returned, the store is the one that
\* running the two ingestions one after the other, in one of the two orders,
\* gives from the store they started from.
C23_ConcurrentIngestionsSerializable ==
    (\A s \in Sessions : JobDone(s)) =>
        LET a == ConcurrentData[job[1].data]
            b == ConcurrentData[job[2].data]
        IN  graph \in {Serial(base, a, b), Serial(base, b, a)}

\* C24: in the store as research_and_learn calls leave it, a node carries
\* the Investor label only if an INVESTED_IN edge starts at it.
C24_InvestorHasInvestment ==
    \A n \in graph.nodes :
        "Investor" \in graph.labels[n] =>
            \E e \in graph.edges : e[1] = n /\ e[2] = INVESTED_IN

\* C25: between two clears all lookups of a cache key that returned gave
\* one agent; a lookup that returned has created its agent exactly when no
\* lookup of its key had returned since the last clear (so at most one agent
\* is created per key between clears, and the next lookup of a key after a
\* clear creates one); the cache holds at most one entry per key; and a
\* lookup whose agent creation failed has left the cache as it was.
C25_OneAgentPerKey ==
    /\ \A e1 \in looked, e2 \in looked : e1[1] = e2[1] => e1[2] = e2[2]
    /\ \A e1 \in agent_cache, e2 \in agent_cache : e1[1] = e2[1] => e1[2] = e2[2]
    /\ lookup.outcome = "returned" => (lookup.created <=> lookup.first)
    /\ lookup.created => \A e \in lookup.before : e[2] # lookup.agent
    /\ lookup.outcome = "raised" => agent_cache = lookup.before

\* a key was looked up again after an earlier agent had been cleared away,
\* and the lookup returned the agent the cache held
C25_Witness ==
    /\ lookup.outcome = "returned"
    /\ ~lookup.created
    /\ Cardinality(agent_cache) < agents

====
